---------------------------- MODULE Spec2Model ----------------------------
(***************************************************************************)
(* minichess: a human plays an external UCI engine.  The model covers the  *)
(* session controller (src/src/chess_game.rs), the engine adapter          *)
(* (src/src/stockfish.rs) and the top level (src/src/main.rs).             *)
(*                                                                         *)
(* The rules library (crate `chess`) is not part of the repository.  Its   *)
(* `Game` is a start position plus the list of moves made, and that is     *)
(* what the model keeps: a Game is the sequence of moves played.  The      *)
(* rules themselves are stood in for by a small take-away game with the    *)
(* same interface: a legal-move set per position, a side to move that      *)
(* alternates with every move made, and a finished result when the side    *)
(* to move has no legal move.                                              *)
(***************************************************************************)
EXTENDS Integers, Sequences, FiniteSets, TLC

(***************************************************************************)
(* Bounds of the model.                                                    *)
(***************************************************************************)
\* Size of the stand-in game: the number of units to take away.
StartPile == 4
\* Cap on len(game_states); an engine that keeps answering with moves the
\* rules library refuses would otherwise grow the log without end.
MaxStates == 5

(***************************************************************************)
(* The rules library as the program uses it.                               *)
(***************************************************************************)
\* Every syntactically valid move (ChessMove::new / ChessMove::from_str).
MoveTokens == 1..3
\* The largest unit count a legal move may take; token 3 is well formed but
\* legal in no position (as e2e5 is for a pawn on e2).
TakeLimit == 2

White == "White"
Black == "Black"
Color == {White, Black}

RECURSIVE Taken(_)
Taken(g) == IF g = <<>> THEN 0 ELSE g[Len(g)] + Taken(SubSeq(g, 1, Len(g) - 1))

\* Game::new()
NewGame == <<>>

\* MoveGen::new_legal(&game.current_position())
legal_moves(g) == {m \in MoveTokens : m <= TakeLimit /\ Taken(g) + m <= StartPile}

\* game.current_position().side_to_move()
side_to_move(g) == IF Len(g) % 2 = 0 THEN White ELSE Black

\* game.result().is_some(): checkmate or stalemate, the side to move has no move
result_is_some(g) == legal_moves(g) = {}

\* Game::make_move: refuses (and leaves the game alone) when the game is
\* finished or the move is not legal in the current position.
make_move(g, m) ==
    IF result_is_some(g) THEN g
    ELSE IF m \in legal_moves(g) THEN Append(g, m)
    ELSE g

(***************************************************************************)
(* State.                                                                  *)
(***************************************************************************)
VARIABLES
    pc,                   \* where the single thread of control is
    game,                 \* ChessGame.game
    player_color,         \* ChessGame.player_color
    move_history,         \* ChessGame.move_history
    game_states,          \* ChessGame.game_states
    current_state_index,  \* ChessGame.current_state_index (0-based)
    input,                \* the last line read at the human prompt
    outcome,              \* what the last prompt command reported
    stdout,               \* the engine's output stream: "open" or "eof"
    line,                 \* the reader's line buffer inside a wait loop
    spawned,              \* the subprocess was started
    kills,                \* number of start_kill calls (Drop for StockfishEngine)
    exit_status,          \* "running", or how main returned: "ok" / "err"
    render_in,            \* to_algebraic_notation: the move and what it reads
    render_out,           \* to_algebraic_notation: the string returned
    difficulty,           \* the --difficulty argument of the command line
    skill_sent,           \* the values of the "setoption name Skill Level"
                          \* commands written to the engine, in order
    engine_log            \* the latest lines exchanged with the engine: the
                          \* commands written and the answers waited for

vars == <<pc, game, player_color, move_history, game_states,
          current_state_index, input, outcome, stdout, line, spawned, kills,
          exit_status, render_in, render_out, difficulty, skill_sent,
          engine_log>>

\* the notation renderer's input and output
render == <<render_in, render_out>>

(***************************************************************************)
(* Command line (main.rs): --difficulty LEVEL, a string; clap supplies     *)
(* "5" when the argument is absent.                                        *)
(***************************************************************************)
\* the integers tried as LEVEL
ArgValues == {-1, 0, 1, 5, 20, 21, 255, 256}

\* kind: "absent", "int" (a decimal integer, value) or "junk" (no number)
Arg(kind, v) == [kind |-> kind, value |-> v]
NoArg == Arg("absent", 5)
DifficultyArgs ==
    {NoArg, Arg("junk", 0)} \cup {Arg("int", v) : v \in ArgValues}

\* str::parse::<u8>: Ok for a decimal integer in 0..=255, Err otherwise
parse_u8_ok(a) == a.kind # "junk" /\ a.value \in 0..255

\* let difficulty: u8 = matches.get_one("difficulty").unwrap().parse().unwrap_or(5)
parse_difficulty(a) ==
    IF parse_u8_ok(a) THEN a.value ELSE 5

\* u8::clamp(1, 20)
clamp(level) ==
    IF level < 1 THEN 1 ELSE IF level > 20 THEN 20 ELSE level

\* set_difficulty: the value written in "setoption name Skill Level value N"
set_difficulty(level) == clamp(level)

session == <<game, move_history, game_states, current_state_index>>


(***************************************************************************)
(* Lines of text.  A line is kept by what the program looks at: a prompt   *)
(* line by the command it matches or, for anything else, by its length,    *)
(* whether its two square tokens parse, its fifth character and the move   *)
(* its squares denote; an engine line by its first word, its number of     *)
(* words and the move its second word parses to (0: it does not parse).    *)
(***************************************************************************)
Cmd(c) == [kind |-> c, len |-> 0, from_ok |-> FALSE, to_ok |-> FALSE,
           promo |-> "", mv |-> 0, cut_ok |-> TRUE]
Text(n, f, t, p, m) == [kind |-> "text", len |-> n, from_ok |-> f, to_ok |-> t,
                        promo |-> p, mv |-> m, cut_ok |-> TRUE]
\* a line of n bytes with a character of several bytes across byte 2 or 4,
\* such as "a\u00e9b" (4 bytes): no square token can be cut out of it
Uncut(n) == [Text(n, FALSE, FALSE, "", 0) EXCEPT !.cut_ok = FALSE]
NoInput == Cmd("")

\* "h"/"help", "moves", "history", "show"/"showboard"/"board", "fen"
InfoCommands == {"help", "moves", "history", "show", "fen"}

\* Lines that match no command: well-formed four-character moves, a
\* five-character promotion move, and one line for each format error.
TextInputs ==
    {Text(4, TRUE, TRUE, "", m) : m \in MoveTokens}
    \cup {Text(5, TRUE, TRUE, "q", 3), Text(5, TRUE, TRUE, "k", 3),
          Text(3, TRUE, FALSE, "", 0), Text(4, FALSE, TRUE, "", 0),
          Text(4, TRUE, FALSE, "", 0), Uncut(3), Uncut(4)}

EngineLine(kw, n, m) == [kw |-> kw, parts |-> n, mv |-> m]
\* the cleared buffer; also what read_line leaves at end of file (Ok(0))
EmptyLine == EngineLine("", 0, 0)
\* what an open stream may deliver
EngineLines ==
    {EngineLine("info", 2, 0), EngineLine("uciok", 1, 0),
     EngineLine("readyok", 1, 0), EngineLine("bestmove", 1, 0),
     EngineLine("bestmove", 2, 0)}
    \cup {EngineLine("bestmove", 2, m) : m \in MoveTokens}

(***************************************************************************)
(* Move notation (chess_game.rs, to_algebraic_notation).  The renderer     *)
(* reads the board before the move through the chess crate: the piece and  *)
(* colour on the source square, whether the destination is occupied, the   *)
(* other legal moves to the same destination, and, after the move, the     *)
(* checkers and the legal replies.  A render case holds the move and those *)
(* answers; a string is the sequence of its characters.                    *)
(***************************************************************************)
\* the squares the cases are drawn from: files c, d, e, g, all ranks
RenderFiles == {3, 4, 5, 7}
RenderRanks == {1, 2, 3, 4, 5, 6, 7, 8}
RenderSquares == [f : RenderFiles, r : RenderRanks]

\* at most this many other pieces of the same type reach the destination
MaxOthers == 1

Sq(f, r) == [f |-> f, r |-> r]

\* Square's Display: file letter then rank digit
to_string(sq) ==
    << <<"a", "b", "c", "d", "e", "f", "g", "h">>[sq.f],
       <<"1", "2", "3", "4", "5", "6", "7", "8">>[sq.r] >>

Dist(a, b) == IF a >= b THEN a - b ELSE b - a

king_start(c) == IF c = White THEN Sq(5, 1) ELSE Sq(5, 8)

\* the king's two-file step from its start square
IsCastle(p, c, from, to) ==
    /\ p = "K"
    /\ from = king_start(c)
    /\ to.r = from.r
    /\ to.f \in {3, 7}

\* how a piece of type p travels from one square to another (chess crate's
\* move generator), as far as the renderer's cases need it
PieceReaches(p, from, to) ==
    LET df == Dist(from.f, to.f)
        dr == Dist(from.r, to.r)
    IN  /\ from # to
        /\ CASE p = "N" -> {df, dr} = {1, 2}
             [] p = "B" -> df = dr
             [] p = "R" -> df = 0 \/ dr = 0
             [] p = "Q" -> df = dr \/ df = 0 \/ dr = 0
             [] p = "K" -> df <= 1 /\ dr <= 1
             [] OTHER -> FALSE

PawnDir(c) == IF c = White THEN 1 ELSE -1
PawnStartRank(c) == IF c = White THEN 2 ELSE 7
PawnLastRank(c) == IF c = White THEN 8 ELSE 1
\* the rank a pawn captures en passant from
EnPassantRank(c) == IF c = White THEN 5 ELSE 4

PawnPushes(c, from, to, occupied) ==
    /\ to.f = from.f
    /\ ~occupied
    /\ \/ to.r = from.r + PawnDir(c)
       \/ from.r = PawnStartRank(c) /\ to.r = from.r + 2 * PawnDir(c)

\* a pawn takes diagonally: the piece on the destination, or, en passant,
\* the pawn beside it while the destination is empty
PawnTakes(c, from, to, occupied) ==
    /\ Dist(from.f, to.f) = 1
    /\ to.r = from.r + PawnDir(c)
    /\ occupied \/ from.r = EnPassantRank(c)

\* a legal move's source, destination and capture
MoveShape(p, c, from, to, occupied) ==
    /\ from # to
    /\ CASE p = "P" ->
              /\ from.r \in 2..7
              /\ \/ PawnPushes(c, from, to, occupied)
                 \/ PawnTakes(c, from, to, occupied)
         [] p = "K" ->
              \/ PieceReaches("K", from, to)
              \/ IsCastle("K", c, from, to) /\ ~occupied
         [] OTHER -> PieceReaches(p, from, to)

\* ChessMove::get_promotion: a piece exactly when a pawn reaches the last rank
Promotions(p, c, to) ==
    IF p = "P" /\ to.r = PawnLastRank(c)
    THEN {"Q", "R", "B", "N"}
    ELSE {"none"}

\* where another piece of the same type could come from
OtherSources(p, from, to) ==
    IF p \in {"P", "K"}
    THEN {}
    ELSE {q \in RenderSquares : q # from /\ PieceReaches(p, q, to)}

\* the subsets of S of at most n elements
RECURSIVE SetsUpTo(_, _)
SetsUpTo(S, n) ==
    IF n = 0
    THEN {{}}
    ELSE LET smaller == SetsUpTo(S, n - 1)
         IN  smaller \cup {t \cup {o} : t \in smaller, o \in S}

\* the cases of a legal move
LegalCase(k) ==
    /\ MoveShape(k.piece, k.color, k.from, k.to, k.dest_occupied)
    /\ k.promotion \in Promotions(k.piece, k.color, k.to)
    /\ k.others \subseteq OtherSources(k.piece, k.from, k.to)
    /\ Cardinality(k.others) <= MaxOthers

NoRender ==
    [piece |-> "none", color |-> White, from |-> Sq(5, 2), to |-> Sq(5, 4),
     dest_occupied |-> FALSE, promotion |-> "none", others |-> {},
     checkers |-> FALSE, legal_after |-> TRUE]

NotRendered == <<"?">>

\* ChessMove's Display, the renderer's fallback
move_to_string(k) == to_string(k.from) \o to_string(k.to)

\* let is_capture = board.piece_on(to_square).is_some();
is_capture(k) == k.dest_occupied

\* temp_board.checkers() / legal_after
check_suffix(k) ==
    IF k.checkers
    THEN IF k.legal_after THEN <<"+">> ELSE <<"#">>
    ELSE <<>>

piece_letter(k) ==
    IF k.piece = "P"
    THEN IF is_capture(k) THEN <<to_string(k.from)[1]>> ELSE <<>>
    ELSE <<k.piece>>

\* Mutant of disambiguation: the file is used whatever the others stand on.
disambiguation_file_only(k) ==
    IF k.piece \in {"P", "K"} \/ k.others = {}
    THEN <<>>
    ELSE <<to_string(k.from)[1]>>

\* the disambiguation block: nothing for pawns and kings or when no other
\* piece of the type reaches the destination, else the file, or the rank
\* when another source shares the file
disambiguation(k) ==
    IF k.piece \in {"P", "K"} \/ k.others = {}
    THEN <<>>
    ELSE IF ~(\E o \in k.others : o.f = k.from.f)
         THEN <<to_string(k.from)[1]>>
         ELSE <<to_string(k.from)[2]>>

promotion_suffix(k) ==
    IF k.promotion = "none" THEN <<>> ELSE <<"=", k.promotion>>

to_algebraic_notation(k) ==
    IF k.piece = "K" /\ k.from = king_start(k.color)
          /\ k.to \in {Sq(7, 1), Sq(7, 8)}
    THEN <<"0", "-", "0">>
    ELSE IF k.piece = "K" /\ k.from = king_start(k.color)
               /\ k.to \in {Sq(3, 1), Sq(3, 8)}
    THEN <<"0", "-", "0", "-", "0">>
    ELSE IF k.piece = "none"
    THEN move_to_string(k)
    ELSE piece_letter(k)
            \o disambiguation(k)
            \o (IF is_capture(k) THEN <<"x">> ELSE <<>>)
            \o to_string(k.to)
            \o promotion_suffix(k)
            \o check_suffix(k)

(***************************************************************************)
(* Initial state: main has parsed its arguments, nothing is started.  The  *)
(* session fields hold the values ChessGame::new gives them.               *)
(***************************************************************************)
Init ==
    /\ pc = "main"
    /\ game = NewGame
    /\ player_color = White
    /\ move_history = <<>>
    /\ game_states = <<NewGame>>
    /\ current_state_index = 0
    /\ input = NoInput
    /\ outcome = "none"
    /\ stdout = "open"
    /\ line = EmptyLine
    /\ spawned = FALSE
    /\ kills = 0
    /\ exit_status = "running"
    /\ render_in = NoRender
    /\ render_out = NotRendered
    /\ difficulty = NoArg
    /\ skill_sent = <<>>
    /\ engine_log = <<>>

(***************************************************************************)
(* Engine adapter (stockfish.rs) and process exit.                         *)
(***************************************************************************)
\* Mutant of drop: dropping the adapter kills nothing.
drop_forgotten(k) == k

\* impl Drop for StockfishEngine: one start_kill per dropped adapter
drop(k) == k + 1

\* main returns while the adapter exists: the adapter is dropped on the way
\* out, whether the return is Ok or an error carried up by `?`.
Exit(status) ==
    /\ pc' = "exited"
    /\ exit_status' = status
    /\ kills' = drop(kills)
    /\ line' = EmptyLine

\* a panic unwinds through run and main: the adapter is dropped on the way and
\* the process ends with the panic's status
Panic ==
    /\ pc' = "exited"
    /\ exit_status' = "panic"
    /\ kills' = drop(kills)
    /\ line' = EmptyLine

\* reader.read_line: at end of file Ok(0) with the buffer left empty, else a
\* line or an I/O error.  r.err is the error, r.line the line.
ReadResults ==
    IF stdout = "eof" THEN {[err |-> FALSE, eof |-> TRUE, line |-> EmptyLine]}
    ELSE {[err |-> FALSE, eof |-> FALSE, line |-> l] : l \in EngineLines}
         \cup {[err |-> FALSE, eof |-> TRUE, line |-> EmptyLine],
               [err |-> TRUE, eof |-> FALSE, line |-> EmptyLine]}

\* engine_log keeps this many of the latest lines
MaxLog == 4

\* the log after the lines evs, the oldest lines dropped
Logged(log, evs) ==
    LET all == log \o evs
    IN  IF Len(all) <= MaxLog
        THEN all
        ELSE SubSeq(all, Len(all) - MaxLog + 1, Len(all))

\* Mutant of query_commands: the search is started before the position is
\* set.
query_commands_swapped == <<"go", "position">>

\* get_best_move's two writes: "position fen ..." then "go depth 10"
query_commands == <<"position", "go">>

\* get_best_move up to its read loop, with the log so far: the two commands
\* are written; a failed write is carried up to main.
StartEngineQuery(log) ==
    \E io \in {"ok", "first_failed", "second_failed"} :
        IF io = "ok"
        THEN /\ pc' = "gbm_wait"
             /\ line' = EmptyLine
             /\ engine_log' = Logged(log, query_commands)
             /\ UNCHANGED <<kills, exit_status>>
        ELSE /\ Exit("err")
             /\ engine_log' = IF io = "first_failed"
                              THEN log
                              ELSE Logged(log, <<query_commands[1]>>)

\* Mutant of RunLoop: the result of the game is not looked at.
RunLoop_unchecked(g, c, log) ==
    IF side_to_move(g) = c
    THEN /\ pc' = "prompt"
         /\ line' = EmptyLine
         /\ engine_log' = log
         /\ UNCHANGED <<kills, exit_status>>
    ELSE StartEngineQuery(log)

\* run's loop, from its top, for game g and human colour c, with the log so
\* far: game over ends the session, else the side to move selects the
\* handler.
RunLoop(g, c, log) ==
    IF result_is_some(g) THEN Exit("ok") /\ engine_log' = log
    ELSE IF side_to_move(g) = c
    THEN /\ pc' = "prompt"
         /\ line' = EmptyLine
         /\ engine_log' = log
         /\ UNCHANGED <<kills, exit_status>>
    ELSE StartEngineQuery(log)

\* StockfishEngine::new up to the first wait: spawn, then "uci" is written.
Spawn ==
    /\ pc = "main"
    /\ UNCHANGED <<render, difficulty, skill_sent>>
    /\ \E spawn_ok \in BOOLEAN, io_ok \in BOOLEAN :
        IF ~spawn_ok
        THEN /\ pc' = "exited"
             /\ exit_status' = "err"
             /\ UNCHANGED <<spawned, kills, line, engine_log>>
        ELSE /\ spawned' = TRUE
             /\ IF io_ok
                THEN /\ pc' = "wait_uciok"
                     /\ line' = EmptyLine
                     /\ engine_log' = Logged(engine_log, <<"uci">>)
                     /\ UNCHANGED <<kills, exit_status>>
                ELSE Exit("err") /\ UNCHANGED engine_log
    /\ UNCHANGED <<session, player_color, input, outcome, stdout>>

\* wait_for_response: one read of its loop.  matched: line.trim() == expected;
\* the caller then writes the command then_send and goes on at next_pc.
wait_for_response(expected, then_send, next_pc) ==
    \E r \in ReadResults, io_ok \in BOOLEAN :
        /\ stdout' = IF r.eof THEN "eof" ELSE stdout
        /\ IF r.err THEN Exit("err") /\ UNCHANGED engine_log
           ELSE IF r.line.kw = expected /\ r.line.parts = 1
           THEN IF io_ok
                THEN /\ pc' = next_pc
                     /\ line' = EmptyLine
                     /\ engine_log' = Logged(engine_log, <<expected, then_send>>)
                     /\ UNCHANGED <<kills, exit_status>>
                ELSE /\ Exit("err")
                     /\ engine_log' = Logged(engine_log, <<expected>>)
           ELSE /\ line' = r.line
                /\ UNCHANGED <<pc, kills, exit_status, engine_log>>

\* new: wait for "uciok", then "isready" is written.
WaitUciok ==
    /\ pc = "wait_uciok"
    /\ UNCHANGED <<render, difficulty, skill_sent>>
    /\ wait_for_response("uciok", "isready", "wait_readyok")
    /\ UNCHANGED <<session, player_color, input, outcome, spawned>>

\* new: wait for "readyok"; new returns, ChessGame::new calls set_difficulty
\* (one "setoption" write) and prompts for the colour.
WaitReadyok ==
    /\ pc = "wait_readyok"
    /\ UNCHANGED <<render, difficulty>>
    /\ wait_for_response("readyok", "setoption", "choose_color")
    /\ skill_sent' = IF pc' = "choose_color"
                     THEN Append(skill_sent,
                                 set_difficulty(parse_difficulty(difficulty)))
                     ELSE skill_sent
    /\ UNCHANGED <<session, player_color, input, outcome, spawned>>

(***************************************************************************)
(* Session controller (chess_game.rs).  The methods of ChessGame are       *)
(* functions of the struct's fields, gathered in a record.                 *)
(***************************************************************************)
Session ==
    [game |-> game, player_color |-> player_color,
     move_history |-> move_history, game_states |-> game_states,
     current_state_index |-> current_state_index]

\* ChessGame::new's struct for human colour c
NewSession(c) ==
    [game |-> NewGame, player_color |-> c, move_history |-> <<>>,
     game_states |-> <<NewGame>>, current_state_index |-> 0]

\* the struct's fields after a method ran
Becomes(s) ==
    /\ game' = s.game
    /\ player_color' = s.player_color
    /\ move_history' = s.move_history
    /\ game_states' = s.game_states
    /\ current_state_index' = s.current_state_index

\* Mutant of is_in_computer_turn: every turn is taken for the human's.
is_in_computer_turn_never(s) == FALSE

\* is_in_computer_turn: the side to move at the live position is not the
\* human's
is_in_computer_turn(s) == side_to_move(s.game) # s.player_color

\* Mutant of save_game_state: the states after the cursor are not cut.
save_game_state_no_cut(s) ==
    [s EXCEPT !.game_states = Append(s.game_states, s.game),
              !.current_state_index = Len(s.game_states)]

\* Mutant of save_game_state: the cursor is set to the length, not the last
\* index.
save_game_state_index_off(s) ==
    LET kept == IF s.current_state_index < Len(s.game_states) - 1
                THEN SubSeq(s.game_states, 1, s.current_state_index + 1)
                ELSE s.game_states
        pushed == Append(kept, s.game)
    IN  [s EXCEPT !.game_states = pushed,
                  !.current_state_index = Len(pushed)]

\* States after the cursor are cut, the live game is pushed, the cursor is
\* the last index.
save_game_state(s) ==
    LET kept == IF s.current_state_index < Len(s.game_states) - 1
                THEN SubSeq(s.game_states, 1, s.current_state_index + 1)
                ELSE s.game_states
        pushed == Append(kept, s.game)
    IN  [s EXCEPT !.game_states = pushed,
                  !.current_state_index = Len(pushed) - 1]

\* A history entry: the move, the colour string recorded with it, and whose
\* move the description says it was.
Entry(m, colour, who) == [mv |-> m, player |-> colour, by |-> who]

\* parse_and_make_move, the parsing part: Ok(move) or the first error met.
ParseErr == [ok |-> FALSE, panic |-> FALSE, mv |-> 0]
\* &input[0..2], &input[2..4], &input[4..5] are byte slices: cutting inside
\* a character panics
ParsePanic == [ok |-> FALSE, panic |-> TRUE, mv |-> 0]
ParseOk(m) == [ok |-> TRUE, panic |-> FALSE, mv |-> m]

parse_move(inp) ==
    IF inp.len = 4
    THEN IF ~inp.cut_ok THEN ParsePanic
         ELSE IF ~inp.from_ok THEN ParseErr
         ELSE IF ~inp.to_ok THEN ParseErr
         ELSE ParseOk(inp.mv)
    ELSE IF inp.len = 5
    THEN IF ~inp.cut_ok THEN ParsePanic
         ELSE IF ~inp.from_ok THEN ParseErr
         ELSE IF ~inp.to_ok THEN ParseErr
         ELSE IF inp.promo \notin {"q", "r", "b", "n"} THEN ParseErr
         ELSE ParseOk(inp.mv)
    ELSE ParseErr

\* Mutant of is_legal: the legality check is left out.
is_legal_unchecked(s, m) == TRUE

\* parse_and_make_move's legality check: legal_moves.contains(&chess_move)
is_legal(s, m) == m \in legal_moves(s.game)

\* parse_and_make_move: Err leaves the struct alone; Ok has made the move,
\* saved the state and pushed the entry, tagged with the human's colour.
parse_and_make_move(s, inp) ==
    LET parsed == parse_move(inp) IN
    IF parsed.panic
    THEN [ok |-> FALSE, panic |-> TRUE, s |-> s]
    ELSE IF ~parsed.ok \/ ~is_legal(s, parsed.mv)
    THEN [ok |-> FALSE, panic |-> FALSE, s |-> s]
    ELSE LET made == [s EXCEPT !.game = make_move(s.game, parsed.mv)]
             saved == save_game_state(made)
         IN  [ok |-> TRUE, panic |-> FALSE,
              s |-> [saved EXCEPT !.move_history =
                        Append(s.move_history,
                               Entry(parsed.mv, s.player_color, "You"))]]

\* The colour string make_computer_move records.
computer_color_str(s) == IF s.player_color = White THEN Black ELSE White

\* make_computer_move once get_best_move returned best_move: the entry is
\* pushed, the move handed to the rules library, the state saved.
make_computer_move(s, best_move) ==
    LET logged == [s EXCEPT !.move_history =
                      Append(s.move_history,
                             Entry(best_move, computer_color_str(s), "Computer"))]
        made == [logged EXCEPT !.game = make_move(s.game, best_move)]
    IN  save_game_state(made)

\* undo_move's count
moves_to_undo(s) == IF is_in_computer_turn(s) THEN 2 ELSE 1

\* Mutant of undo_history: nothing is popped.
undo_history_keeps(h, n) == h

\* undo_move's loop on the history: one pop per step while entries are left
undo_history(h, n) ==
    SubSeq(h, 1, Len(h) - (IF Len(h) < n THEN Len(h) ELSE n))

\* Mutant of restored_game: the live game is left as it was.
restored_game_stale(s, i) == s.game

\* undo_move and redo_move, last step: self.game is the snapshot at the
\* cursor i.
restored_game(s, i) == s.game_states[i + 1]

\* Mutant of undo_move: the "would go before game start" test is gone and
\* the loop undoes as far as the cursor allows.
undo_move_partial(s) ==
    IF s.current_state_index = 0
    THEN [ok |-> FALSE, msg |-> "cannot_undo", s |-> s]
    ELSE IF s.move_history = <<>>
    THEN [ok |-> FALSE, msg |-> "", s |-> s]
    ELSE LET n == IF s.current_state_index < moves_to_undo(s)
                  THEN s.current_state_index ELSE moves_to_undo(s)
             i == s.current_state_index - n
         IN  [ok |-> TRUE, msg |-> "undone",
              s |-> [s EXCEPT !.current_state_index = i,
                              !.move_history = undo_history(s.move_history, n),
                              !.game = restored_game(s, i)]]

\* undo_move: ok is its return value, msg what it printed.
undo_move(s) ==
    IF s.current_state_index = 0
    THEN [ok |-> FALSE, msg |-> "cannot_undo", s |-> s]
    ELSE IF s.move_history = <<>>
    THEN [ok |-> FALSE, msg |-> "", s |-> s]
    ELSE IF s.current_state_index < moves_to_undo(s)
    THEN [ok |-> FALSE, msg |-> "cannot_undo", s |-> s]
    ELSE LET i == s.current_state_index - moves_to_undo(s)
         IN  [ok |-> TRUE, msg |-> "undone",
              s |-> [s EXCEPT !.current_state_index = i,
                              !.move_history =
                                  undo_history(s.move_history, moves_to_undo(s)),
                              !.game = restored_game(s, i)]]

\* Mutant of moves_to_redo: three steps where the code takes two.
moves_to_redo_three(s) ==
    IF s.current_state_index + 2 < Len(s.game_states) /\ ~is_in_computer_turn(s)
    THEN 3 ELSE 1

\* redo_move's count
moves_to_redo(s) ==
    IF s.current_state_index + 2 < Len(s.game_states) /\ ~is_in_computer_turn(s)
    THEN 2 ELSE 1

\* redo_move's loop on the cursor: one step forward while a state is left
redo_index(i, n, len) == IF i + n < len - 1 THEN i + n ELSE len - 1

\* redo_move: ok is its return value, msg what it printed.
redo_move(s) ==
    IF s.current_state_index >= Len(s.game_states) - 1
    THEN [ok |-> FALSE, msg |-> "cannot_redo", s |-> s]
    ELSE LET i == redo_index(s.current_state_index, moves_to_redo(s),
                             Len(s.game_states))
         IN  [ok |-> TRUE, msg |-> "redone",
              s |-> [s EXCEPT !.current_state_index = i,
                              !.game = restored_game(s, i)]]

\* to_algebraic_notation, the board it renders entry number n + 1 on: the
\* first n entries of the history replayed from the start with make_move.
RECURSIVE Replay(_, _)
Replay(h, n) ==
    IF n = 0 THEN NewGame ELSE make_move(Replay(h, n - 1), h[n].mv)

(***************************************************************************)
(* The steps of the program.                                               *)
(***************************************************************************)
\* ChessGame::new after the adapter is ready: the colour prompt ("2" is
\* Black, anything else White) and the struct; then run, which lets the
\* engine move first when the human is Black and enters its loop otherwise.
\* A failed read of the prompt is carried up to main.
ChooseColor ==
    /\ pc = "choose_color"
    /\ UNCHANGED <<render, difficulty, skill_sent>>
    /\ \E choice \in {"1", "2", "other"}, in_ok \in BOOLEAN :
        IF ~in_ok
        THEN Exit("err") /\ UNCHANGED <<session, player_color, engine_log>>
        ELSE LET c == IF choice = "2" THEN Black ELSE White
             IN  /\ Becomes(NewSession(c))
                 /\ IF c = Black
                    THEN StartEngineQuery(engine_log)
                    ELSE RunLoop(NewGame, c, engine_log)
    /\ UNCHANGED <<input, outcome, stdout, spawned>>

\* handle_player_turn: "q" / "quit".  run returns Ok and main returns.
Quit ==
    /\ pc = "prompt"
    /\ UNCHANGED <<render, difficulty, skill_sent, engine_log>>
    /\ input' = Cmd("quit")
    /\ outcome' = "quit"
    /\ Exit("ok")
    /\ UNCHANGED <<session, player_color, stdout, spawned>>

\* Mutant of Info: after the output the handler returns to run's loop.
Info_returns ==
    /\ pc = "prompt"
    /\ UNCHANGED <<render, difficulty, skill_sent>>
    /\ \E c \in InfoCommands : input' = Cmd(c)
    /\ outcome' = "info"
    /\ RunLoop(game, player_color, engine_log)
    /\ UNCHANGED <<session, player_color, stdout, spawned>>

\* handle_player_turn: help, legal-move list, history, board, fen.
Info ==
    /\ pc = "prompt"
    /\ UNCHANGED <<render, difficulty, skill_sent, engine_log>>
    /\ \E c \in InfoCommands : input' = Cmd(c)
    /\ outcome' = "info"
    /\ UNCHANGED <<pc, session, player_color, stdout, line, spawned, kills,
                   exit_status>>

\* handle_player_turn: "undo" / "u".
Undo ==
    /\ pc = "prompt"
    /\ UNCHANGED <<render, difficulty, skill_sent, engine_log>>
    /\ input' = Cmd("undo")
    /\ outcome' = undo_move(Session).msg
    /\ Becomes(undo_move(Session).s)
    /\ UNCHANGED <<pc, stdout, line, spawned, kills, exit_status>>

\* handle_player_turn: "redo" / "re".
Redo ==
    /\ pc = "prompt"
    /\ UNCHANGED <<render, difficulty, skill_sent, engine_log>>
    /\ input' = Cmd("redo")
    /\ outcome' = redo_move(Session).msg
    /\ Becomes(redo_move(Session).s)
    /\ UNCHANGED <<pc, stdout, line, spawned, kills, exit_status>>

\* handle_player_turn: any other line.  An error reprompts; a move made
\* returns to run's loop; a panic unwinds out of main.  The outcome tells a move that cut states after
\* the cursor from one that did not.
MoveInput ==
    /\ pc = "prompt"
    /\ UNCHANGED <<render, difficulty, skill_sent>>
    /\ \E inp \in TextInputs :
        /\ input' = inp
        /\ LET done == parse_and_make_move(Session, inp) IN
           IF done.panic
           THEN /\ outcome' = "panic"
                /\ Panic
                /\ UNCHANGED <<session, player_color, engine_log>>
           ELSE IF ~done.ok
           THEN /\ outcome' = "invalid_move"
                /\ UNCHANGED <<pc, session, player_color, line, kills,
                               exit_status, engine_log>>
           ELSE /\ Becomes(done.s)
                /\ outcome' = IF current_state_index < Len(game_states) - 1
                              THEN "moved_branch" ELSE "moved"
                /\ RunLoop(done.s.game, done.s.player_color, engine_log)
    /\ UNCHANGED <<stdout, spawned>>

\* handle_player_turn: get_user_input fails; the error is carried up to main.
InputError ==
    /\ pc = "prompt"
    /\ UNCHANGED <<render, difficulty, skill_sent, engine_log>>
    /\ input' = NoInput
    /\ outcome' = "none"
    /\ Exit("err")
    /\ UNCHANGED <<session, player_color, stdout, spawned>>

\* the read gave a line that starts with "bestmove" and has a second word
Answered(r) == ~r.err /\ r.line.kw = "bestmove" /\ r.line.parts >= 2

\* the read failed, or the move word of the answer does not parse
EngineFailure(r) == r.err \/ (Answered(r) /\ r.line.mv = 0)

\* Mutant of get_best_move_result: an answer whose move does not parse is
\* passed over and the next line is read.
get_best_move_retries(r) ==
    IF r.err THEN "err"
    ELSE IF Answered(r) /\ r.line.mv # 0 THEN "move"
    ELSE "loop"

\* get_best_move's read loop, one read: "err" returns the error, "move"
\* returns the move, "loop" reads on
get_best_move_result(r) ==
    IF r.err THEN "err"
    ELSE IF Answered(r)
    THEN IF r.line.mv = 0 THEN "err" ELSE "move"
    ELSE "loop"

\* make_computer_move from get_best_move's read loop on: one read.  The
\* outcome "engine_error" is the error main reports when get_best_move fails.  A line
\* that starts with "bestmove" and has a second word ends the loop: the word
\* parses to a move or the error is carried up.  With a move,
\* make_computer_move goes on and run's loop after it.
ReadBestMove ==
    /\ pc = "gbm_wait"
    /\ UNCHANGED <<render, difficulty, skill_sent>>
    /\ \E r \in ReadResults :
        /\ stdout' = IF r.eof THEN "eof" ELSE stdout
        /\ outcome' = IF EngineFailure(r) THEN "engine_error" ELSE outcome
        /\ LET log == IF Answered(r)
                      THEN Logged(engine_log, <<"bestmove">>)
                      ELSE engine_log
           IN  IF get_best_move_result(r) = "err"
               THEN /\ Exit("err")
                    /\ engine_log' = log
                    /\ UNCHANGED <<session, player_color>>
               ELSE IF get_best_move_result(r) = "move"
               THEN LET s == make_computer_move(Session, r.line.mv)
                    IN  /\ r.line.mv \in legal_moves(game)
                               \/ Len(s.game_states) <= MaxStates
                        /\ Becomes(s)
                        /\ RunLoop(s.game, s.player_color, log)
               ELSE /\ line' = r.line
                    /\ engine_log' = log
                    /\ UNCHANGED <<pc, session, player_color, kills,
                                   exit_status>>
    /\ UNCHANGED <<input, spawned>>

Next ==
    \/ Spawn
    \/ WaitUciok
    \/ WaitReadyok
    \/ ChooseColor
    \/ Quit
    \/ Info
    \/ Undo
    \/ Redo
    \/ MoveInput
    \/ InputError
    \/ ReadBestMove

Spec == Init /\ [][Next]_vars

\* The program is one thread that takes its next step whenever it has one.
FairSpec == Spec /\ WF_vars(Next)

\* The program started with any --difficulty argument.
ArgInit ==
    /\ pc = "main"
    /\ game = NewGame
    /\ player_color = White
    /\ move_history = <<>>
    /\ game_states = <<NewGame>>
    /\ current_state_index = 0
    /\ input = NoInput
    /\ outcome = "none"
    /\ stdout = "open"
    /\ line = EmptyLine
    /\ spawned = FALSE
    /\ kills = 0
    /\ exit_status = "running"
    /\ render_in = NoRender
    /\ render_out = NotRendered
    /\ difficulty \in DifficultyArgs
    /\ skill_sent = <<>>
    /\ engine_log = <<>>

ArgSpec == ArgInit /\ [][Next]_vars

\* The renderer on its own: any legal move, on any board answers.
NotationInit ==
    /\ pc = "main"
    /\ game = NewGame
    /\ player_color = White
    /\ move_history = <<>>
    /\ game_states = <<NewGame>>
    /\ current_state_index = 0
    /\ input = NoInput
    /\ outcome = "none"
    /\ stdout = "open"
    /\ line = EmptyLine
    /\ spawned = FALSE
    /\ kills = 0
    /\ exit_status = "running"
    /\ difficulty = NoArg
    /\ skill_sent = <<>>
    /\ engine_log = <<>>
    /\ render_out = NotRendered
    /\ \E p \in {"P", "N", "B", "R", "Q", "K"}, c \in Color,
          from \in RenderSquares, to \in RenderSquares, occ \in BOOLEAN :
         /\ MoveShape(p, c, from, to, occ)
         /\ \E promo \in Promotions(p, c, to),
               os \in SetsUpTo(OtherSources(p, from, to), MaxOthers),
               chk \in BOOLEAN, la \in BOOLEAN :
              /\ render_in = [piece |-> p, color |-> c, from |-> from,
                              to |-> to, dest_occupied |-> occ,
                              promotion |-> promo, others |-> os,
                              checkers |-> chk, legal_after |-> la]
              /\ LegalCase(render_in)

\* show_move_history / the move reports: one call of the renderer
Render ==
    /\ render_out = NotRendered
    /\ render_out' = to_algebraic_notation(render_in)
    /\ UNCHANGED <<pc, session, player_color, input, outcome, stdout, line,
                   spawned, kills, exit_status, render_in, difficulty,
                   skill_sent, engine_log>>

NotationNext == Render

NotationSpec == NotationInit /\ [][NotationNext]_vars

(***************************************************************************)
(* Properties.                                                             *)
(***************************************************************************)
\* the step is the prompt command c
Handled(c) == pc = "prompt" /\ input' = Cmd(c)

\* C1, as stated: in every reachable state the number of stored snapshots
\* is the number of history entries plus one.
C1_SnapshotsAreHistoryPlusOne ==
    Len(game_states) = Len(move_history) + 1

\* C1, amended: the history never has more entries than the cursor counts
\* plies, so there is always at least one snapshot more than history
\* entries; and the two differ by exactly one until an undo succeeds: every
\* step that does not move the cursor back keeps the equality.
C1_SnapshotsAtLeastHistoryPlusOne ==
    /\ [](Len(move_history) <= current_state_index
            /\ Len(move_history) + 1 <= Len(game_states))
    /\ [][(Len(game_states) = Len(move_history) + 1
             /\ current_state_index' >= current_state_index)
          => Len(game_states') = Len(move_history') + 1]_vars

\* C1 witness: an undo has left more snapshots than history entries plus one.
C1_Witness ==
    /\ pc = "prompt" /\ outcome = "undone"
    /\ Len(game_states) > Len(move_history) + 1

\* C2: a successful undo moves the cursor back one ply when the engine's
\* colour is to move, and two plies, landing on the human's colour, when
\* the human's colour is to move.
C2_UndoCountPolicy ==
    [][(Handled("undo") /\ outcome' = "undone")
       => /\ is_in_computer_turn(Session)
                => current_state_index' = current_state_index - 1
          /\ ~is_in_computer_turn(Session)
                => /\ current_state_index' = current_state_index - 2
                   /\ side_to_move(game') = player_color]_vars

\* C3: wherever undo succeeds, undo and then redo bring the cursor and the
\* live position back to what they were.
C3_UndoRedoRoundTrip ==
    (pc = "prompt" /\ undo_move(Session).ok)
    => LET r == redo_move(undo_move(Session).s)
       IN  /\ r.ok
           /\ r.s.current_state_index = current_state_index
           /\ r.s.game = game

\* C4: a move committed while the cursor is not at the last snapshot cuts
\* the snapshots after the cursor and then appends: one snapshot and one
\* history entry are added relative to the cursor, the cursor is the last
\* index, the old later snapshots are gone, and a redo would fail.
C4_BranchingCommit ==
    [][(Len(move_history') = Len(move_history) + 1
          /\ current_state_index < Len(game_states) - 1)
       => /\ game_states' =
                 Append(SubSeq(game_states, 1, current_state_index + 1), game')
          /\ SubSeq(move_history', 1, Len(move_history)) = move_history
          /\ current_state_index' = current_state_index + 1
          /\ current_state_index' = Len(game_states') - 1
          /\ ~redo_move(Session').ok]_vars

\* C4 witness: a move was just committed from a cursor that had later
\* snapshots.
C4_Witness ==
    /\ outcome = "moved_branch"
    /\ current_state_index = Len(game_states) - 1

\* C5: a well-formed move line whose move is not legal in the current
\* position is rejected, the session's fields are unchanged and the prompt
\* stays.
C5_IllegalMoveRejected ==
    [][(pc = "prompt" /\ input'.kind = "text" /\ parse_move(input').ok
          /\ parse_move(input').mv \notin legal_moves(game))
       => /\ outcome' = "invalid_move"
          /\ UNCHANGED session
          /\ pc' = "prompt"]_vars

\* C5 witness: a well-formed illegal move was rejected at the prompt.
C5_Witness ==
    /\ pc = "prompt" /\ outcome = "invalid_move"
    /\ input.kind = "text" /\ parse_move(input).ok
    /\ parse_move(input).mv \notin legal_moves(game)

\* get_best_move returns an error, which run and main carry up
BestMoveFails == ReadBestMove /\ pc' = "exited" /\ exit_status' = "err"

\* C6: once the engine's output has ended while get_best_move waits for a
\* bestmove line, get_best_move returns an error: the failing return is its
\* next step, and it is taken.
C6_EofFailsBestMove ==
    /\ []((pc = "gbm_wait" /\ stdout = "eof") => ENABLED BestMoveFails)
    /\ (pc = "gbm_wait" /\ stdout = "eof")
           ~> (pc = "exited" /\ exit_status = "err")

\* StockfishEngine::new returns an error from one of its waits
HandshakeFails ==
    (WaitUciok \/ WaitReadyok) /\ pc' = "exited" /\ exit_status' = "err"

\* C7: engine start fails when the subprocess cannot be spawned, and when
\* its output ends before the awaited acknowledgement was read: the failing
\* return is then the next step of the wait, and it is taken.
C7_StartFails ==
    /\ []((pc = "exited" /\ ~spawned) => exit_status = "err")
    /\ []((pc \in {"wait_uciok", "wait_readyok"} /\ stdout = "eof")
            => ENABLED HandshakeFails)
    /\ (pc \in {"wait_uciok", "wait_readyok"} /\ stdout = "eof")
           ~> (pc = "exited" /\ exit_status = "err")

\* C8: the subprocess is never sent a kill twice, never before the program
\* ends, and whenever the program has ended after starting it, it was sent
\* exactly one.
C8_KilledExactlyOnce ==
    /\ kills <= 1
    /\ (pc # "exited" \/ ~spawned) => kills = 0
    /\ (pc = "exited" /\ spawned) => kills = 1

\* C8 witness: the program ended on an engine failure in mid-game, and the
\* subprocess was killed.
C8_Witness ==
    /\ pc = "exited" /\ exit_status = "err" /\ spawned
    /\ move_history # <<>>
    /\ kills = 1

\* C9: between operations the live position is the snapshot at the cursor.
C9_LivePositionIsSnapshotAtCursor ==
    game = game_states[current_state_index + 1]

\* C9 witness: a redo has just moved the cursor forward to a position
\* other than the starting one.
C9_Witness ==
    /\ pc = "prompt" /\ outcome = "redone"
    /\ current_state_index > 0
    /\ game # NewGame

\* C10: the cursor is a valid index into the snapshots, which are never
\* empty.
C10_CursorInRange ==
    /\ Len(game_states) >= 1
    /\ 0 <= current_state_index
    /\ current_state_index < Len(game_states)

\* C10 witness: the cursor is back at the first of several snapshots.
C10_Witness ==
    /\ pc = "prompt" /\ outcome = "undone"
    /\ current_state_index = 0
    /\ Len(game_states) >= 3

\* C11: the first current_state_index history entries exist, and replayed
\* from the initial position they give the position at the cursor.
C11_HistoryMatchesCursor ==
    /\ Len(move_history) >= current_state_index
    /\ Replay(move_history, current_state_index)
           = game_states[current_state_index + 1]

\* a step of make_computer_move that records the engine's move
EngineMoveRecorded ==
    pc = "gbm_wait" /\ Len(move_history') = Len(move_history) + 1

\* C12: an engine move that is not legal in the current position produces
\* no history entry and no snapshot: whenever the engine's turn adds either,
\* the move recorded is legal in the position it was returned for.
C12_EngineMoveChecked ==
    [][(pc = "gbm_wait"
          /\ (move_history' # move_history \/ game_states' # game_states))
       => /\ EngineMoveRecorded
          /\ move_history'[Len(move_history')].mv \in legal_moves(game)]_vars

\* C13: in consecutive snapshots the side to move differs.
C13_StrictAlternation ==
    \A i \in 1..(Len(game_states) - 1) :
        side_to_move(game_states[i]) # side_to_move(game_states[i + 1])

\* C14: the colour recorded with a history entry is the side that was to
\* move in the position the move was applied to.
C14_MoverTagIsSideToMove ==
    [][Len(move_history') = Len(move_history) + 1
       => move_history'[Len(move_history')].player = side_to_move(game)]_vars

\* the notation of the standard: a capture is a move onto an occupied square
\* or a pawn's change of file; the source square is given as far as needed;
\* check and mate are marked on every move, castling included
StandardNotation(k) ==
    LET capture == k.dest_occupied \/ (k.piece = "P" /\ k.from.f # k.to.f)
        source ==
            IF k.piece = "P"
            THEN IF capture THEN <<to_string(k.from)[1]>> ELSE <<>>
            ELSE IF k.others = {} \/ k.piece = "K" THEN <<>>
            ELSE IF ~(\E o \in k.others : o.f = k.from.f)
                 THEN <<to_string(k.from)[1]>>
            ELSE IF ~(\E o \in k.others : o.r = k.from.r)
                 THEN <<to_string(k.from)[2]>>
            ELSE to_string(k.from)
    IN  IF IsCastle(k.piece, k.color, k.from, k.to)
        THEN (IF k.to.f = 7 THEN <<"0", "-", "0">>
                            ELSE <<"0", "-", "0", "-", "0">>)
                \o check_suffix(k)
        ELSE (IF k.piece = "P" THEN <<>> ELSE <<k.piece>>)
                \o source
                \o (IF capture THEN <<"x">> ELSE <<>>)
                \o to_string(k.to)
                \o promotion_suffix(k)
                \o check_suffix(k)

\* C15: the notation rendered for a legal move is its standard notation:
\* piece letter, "x" on every capture (en passant included, with the pawn's
\* file), destination, "=PIECE" on promotion, "0-0" / "0-0-0" for castling,
\* and a trailing "+" or "#" for check or mate.
C15_NotationRoundTrip ==
    render_out # NotRendered => render_out = StandardNotation(render_in)

\* C16: once the engine is set up, exactly one Skill Level command has been
\* written, with N = min(max(value, 1), 20) for an integer argument (values
\* above 255 included) and N = 5 when the argument is absent.
C16_DifficultyClamped ==
    (pc \in {"choose_color", "prompt", "gbm_wait"} /\ difficulty.kind # "junk")
        => skill_sent = <<IF difficulty.kind = "absent"
                          THEN 5
                          ELSE clamp(difficulty.value)>>

\* C17: whenever the session waits for a line at the turn prompt, the side to
\* move at the live position is the human's colour.
C17_PromptOnHumanTurn ==
    pc = "prompt" => side_to_move(game) = player_color

\* C18: at the prompt, whenever the undo count c is at most the cursor, undo
\* succeeds, moves the cursor back by c, removes exactly the last c entries
\* of the history and leaves the snapshots as they are.
C18_UndoBookkeeping ==
    (pc = "prompt" /\ moves_to_undo(Session) <= current_state_index)
        => LET c == moves_to_undo(Session)
               u == undo_move(Session)
           IN  /\ u.ok
               /\ u.s.current_state_index = current_state_index - c
               /\ Len(move_history) >= c
               /\ u.s.move_history
                      = SubSeq(move_history, 1, Len(move_history) - c)
               /\ u.s.game_states = game_states

\* C19: an undo whose count exceeds the cursor, and a redo at the last
\* snapshot, fail, change neither the snapshots, the history, the cursor nor
\* the live position, and leave the session at the prompt.
C19_BoundaryErrorsChangeNothing ==
    [][((Handled("undo") /\ current_state_index < moves_to_undo(Session))
         \/ (Handled("redo")
               /\ current_state_index = Len(game_states) - 1))
       => /\ outcome' \notin {"undone", "redone"}
          /\ UNCHANGED session
          /\ pc' = "prompt"]_vars

\* an undo refused past the start of the game: the cursor is at 1, the count 2
C19_Witness ==
    /\ pc = "prompt"
    /\ input = Cmd("undo")
    /\ outcome = "cannot_undo"
    /\ current_state_index = 1
    /\ moves_to_undo(Session) = 2

\* C20: a successful redo moves the cursor forward by one or two, never past
\* the last snapshot, and leaves the history and the snapshots unchanged.
C20_RedoFrame ==
    [][(Handled("redo") /\ outcome' = "redone")
       => /\ current_state_index' - current_state_index \in {1, 2}
          /\ current_state_index' <= Len(game_states) - 1
          /\ UNCHANGED <<move_history, game_states>>]_vars

\* a redo has just moved the cursor, with snapshots still ahead of it
C20_Witness ==
    /\ pc = "prompt"
    /\ input = Cmd("redo")
    /\ outcome = "redone"
    /\ current_state_index > 0

\* C21: an informational command at the prompt leaves the snapshots, the
\* history, the cursor and the live position unchanged, writes nothing to the
\* engine and keeps the session at the prompt.
C21_InfoChangesNothing ==
    [][(pc = "prompt" /\ input'.kind \in InfoCommands)
       => /\ UNCHANGED session
          /\ UNCHANGED <<engine_log, skill_sent>>
          /\ pc' = "prompt"]_vars

\* an informational command was handled in the middle of a game
C21_Witness ==
    /\ pc = "prompt"
    /\ input.kind \in InfoCommands
    /\ outcome = "info"
    /\ current_state_index > 0

\* a line the move parser must refuse for its form: a length other than 4
\* and 5, a square token that is no coordinate, or a fifth character other
\* than q, r, b, n
FormatError(inp) ==
    /\ inp.kind = "text"
    /\ \/ inp.len \notin {4, 5}
       \/ ~inp.from_ok
       \/ ~inp.to_ok
       \/ inp.len = 5 /\ inp.promo \notin {"q", "r", "b", "n"}

\* C22: a line with a format error is rejected with an error, leaves the
\* snapshots, the history and the cursor unchanged, and the human is prompted
\* again.
C22_FormatErrorReprompts ==
    [][(pc = "prompt" /\ FormatError(input'))
       => /\ outcome' = "invalid_move"
          /\ UNCHANGED <<game_states, move_history, current_state_index>>
          /\ pc' = "prompt"]_vars

\* C23: when get_best_move fails during a game (a read error, or an answer
\* whose move does not parse), the error leaves run and the session ends, no
\* further command is written to the engine, and neither a snapshot nor a
\* history entry is added.
C23_EngineFailureIsFatal ==
    [][(pc = "gbm_wait" /\ outcome' = "engine_error")
       => /\ pc' = "exited"
          /\ exit_status' = "err"
          /\ UNCHANGED <<game_states, move_history>>
          /\ engine_log' \in {engine_log, Logged(engine_log, <<"bestmove">>)}]_vars

\* the session ended on an engine failure in the middle of a game
C23_Witness ==
    /\ pc = "exited"
    /\ outcome = "engine_error"
    /\ exit_status = "err"
    /\ current_state_index > 0

\* the lines that may come right before a line in the exchange with the engine
MayPrecede(ev) ==
    CASE ev = "uci" -> {}
      [] ev = "uciok" -> {"uci"}
      [] ev = "isready" -> {"uciok"}
      [] ev = "readyok" -> {"isready"}
      [] ev = "setoption" -> {"readyok"}
      [] ev = "position" -> {"setoption", "bestmove"}
      [] ev = "go" -> {"position"}
      [] ev = "bestmove" -> {"go"}
      [] OTHER -> {}

\* C24: the exchange with the engine is uci, uciok, isready, readyok,
\* setoption, then rounds of position, go, bestmove: the first line is uci and
\* every line follows one it may follow, so nothing is asked before the
\* handshake is over and no position is sent while a go is unanswered.
C24_ProtocolOrder ==
    /\ (engine_log # <<>> /\ Len(engine_log) < MaxLog) => engine_log[1] = "uci"
    /\ \A i \in 2..Len(engine_log) :
          engine_log[i - 1] \in MayPrecede(engine_log[i])

\* a second request is under way after the first was answered
C24_Witness ==
    /\ pc = "gbm_wait"
    /\ Len(engine_log) >= 4
    /\ SubSeq(engine_log, Len(engine_log) - 3, Len(engine_log))
          = <<"go", "bestmove", "position", "go">>

\* C25: at a position with a finished outcome the session ends before anything
\* else is dispatched: the human is never prompted and the engine never asked
\* at such a position, and no snapshot or history entry is ever added on top
\* of one, whatever moves, undos and redos came before.
C25_GameOverIsTerminal ==
    /\ [](pc \in {"prompt", "gbm_wait"} => ~result_is_some(game))
    /\ [][(game_states' # game_states \/ Len(move_history') > Len(move_history))
          => ~result_is_some(game)]_vars

\* the game was played to its end and the session ended there
C25_Witness ==
    /\ pc = "exited"
    /\ exit_status = "ok"
    /\ outcome # "quit"
    /\ result_is_some(game)
    /\ game = game_states[Len(game_states)]

\* the qualifier the notation must carry after the piece letter
Qualifier(k) ==
    IF k.piece \in {"N", "B", "R", "Q"} /\ k.others # {}
    THEN IF \A o \in k.others : o.f # k.from.f
         THEN <<to_string(k.from)[1]>>
         ELSE <<to_string(k.from)[2]>>
    ELSE <<>>

\* C26: outside castling the rendered notation is the piece letter (for a
\* pawn, its file when it takes), then the qualifier, then the rest; the
\* qualifier is there exactly when the piece is a knight, bishop, rook or
\* queen and another piece of its type can reach the destination: the origin
\* file when no such piece stands on that file, otherwise the origin rank.
C26_Disambiguation ==
    (render_out # NotRendered
        /\ ~IsCastle(render_in.piece, render_in.color,
                     render_in.from, render_in.to))
    => render_out
         = (IF render_in.piece = "P"
            THEN IF render_in.dest_occupied
                 THEN <<to_string(render_in.from)[1]>> ELSE <<>>
            ELSE <<render_in.piece>>)
           \o Qualifier(render_in)
           \o (IF render_in.dest_occupied THEN <<"x">> ELSE <<>>)
           \o to_string(render_in.to)
           \o promotion_suffix(render_in)
           \o check_suffix(render_in)

\* a rook move rendered with its rank, another rook standing on its file
C26_Witness ==
    /\ render_out # NotRendered
    /\ render_in.piece = "R"
    /\ \E o \in render_in.others : o.f = render_in.from.f
    /\ render_out[2] = to_string(render_in.from)[2]

\* every snapshot was reached from the one before it by a legal move: the
\* side to move changes from each snapshot to the next
SnapshotsFromLegalMoves ==
    \A i \in 1..(Len(game_states) - 1) :
        /\ game_states[i + 1] # game_states[i]
        /\ side_to_move(game_states[i + 1]) # side_to_move(game_states[i])

\* C27: when the snapshots all come from legal moves, a successful redo at
\* the prompt leaves the human's colour to move at the new current position.
C27_RedoLandsOnHumanTurn ==
    [][(Handled("redo") /\ outcome' = "redone" /\ SnapshotsFromLegalMoves)
       => side_to_move(game') = player_color]_vars

\* a redo has just brought the human back to the move
C27_Witness ==
    /\ pc = "prompt"
    /\ input = Cmd("redo")
    /\ outcome = "redone"
    /\ SnapshotsFromLegalMoves
    /\ current_state_index >= 2
    /\ side_to_move(game) = player_color

=============================================================================
